---- MODULE Spec2Model ----
(***************************************************************************)
(* Model of app.py, the Streamlit script that classifies an uploaded PDF   *)
(* as scholarly or popular.  A Python str is a sequence of one-character   *)
(* strings; the script's globals are the variables; one script run is the  *)
(* sequence of steps load -> ui -> extract -> classify -> heuristics ->    *)
(* verdict -> evidence -> text, any of which may end the run by raising.   *)
(***************************************************************************)
EXTENDS Integers, Sequences, FiniteSets, TLC

VARIABLES
    pc,              \* position of the current script run
    run,             \* number of script runs started in this server process
    cache,           \* st.cache_resource entry of load_classifier
    constructed,     \* number of pipeline objects constructed so far
    classifier,      \* the script global `classifier` (instance id, 0 = unset)
    calls,           \* instance ids on which classifier(text, labels) was called
    oracle,          \* behaviour of the pretrained model on the texts seen so far
    uploaded_file,   \* the script global `uploaded_file`
    extracted_text,  \* the script global `extracted_text`
    result,          \* the script global `result`
    heuristics,      \* the script global `heuristics`
    display,         \* elements the current run has put on the page
    error,           \* exception that ended the current run ("none" if none)
    log              \* upload, display and error of the earlier finished runs

vars == <<pc, run, cache, constructed, classifier, calls, oracle, uploaded_file,
          extracted_text, result, heuristics, display, error, log>>

(***************************************************************************)
(* Bounds of the model and constants of the program.                       *)
(***************************************************************************)
MaxRuns == 3
MaxPages == 2
ScoreDen == 3
MaxChars == 4000
MaxShown == 2000

(***************************************************************************)
(* Strings.                                                                *)
(***************************************************************************)
sAbstract == <<"A","b","s","t","r","a","c","t">>
sReferences == <<"R","e","f","e","r","e","n","c","e","s">>
sBibliography == <<"B","i","b","l","i","o","g","r","a","p","h","y">>
sdoi == <<"d","o","i">>
sJournal == <<"J","o","u","r","n","a","l">>
sVol == <<"V","o","l",".">>
sscholarly == <<"s","c","h","o","l","a","r","l","y">>
NL == <<"\n">>

UpperLetters == <<"A","B","C","D","E","F","G","H","I","J","K","L","M",
                  "N","O","P","Q","R","S","T","U","V","W","X","Y","Z">>
LowerLetters == <<"a","b","c","d","e","f","g","h","i","j","k","l","m",
                  "n","o","p","q","r","s","t","u","v","w","x","y","z">>

\* str.lower() of one character.  "I_DOT" stands for U+0130 (capital I with
\* dot above), whose lower case is the two characters "i" and U+0307.
LowerChar(c) ==
    IF \E i \in 1..26 : UpperLetters[i] = c
    THEN <<LowerLetters[CHOOSE i \in 1..26 : UpperLetters[i] = c]>>
    ELSE IF c = "I_DOT" THEN <<"i", "DOT_ABOVE">>
    ELSE <<c>>

\* text.lower(): the lower case of every character, concatenated.
RECURSIVE lower(_)
lower(s) ==
    IF Len(s) = 0 THEN <<>>
    ELSE IF Len(s) = 1 THEN LowerChar(s[1])
    ELSE LET h == Len(s) \div 2
         IN  lower(SubSeq(s, 1, h)) \o lower(SubSeq(s, h + 1, Len(s)))

\* Python's `sub in text` on str.
In(sub, text) ==
    \E i \in 1..(Len(text) - Len(sub) + 1) :
        SubSeq(text, i, i + Len(sub) - 1) = sub

\* Python's text[:n] for n >= 0.
Slice(text, n) == SubSeq(text, 1, IF Len(text) < n THEN Len(text) ELSE n)

(***************************************************************************)
(* PDF text extraction.  page.extract_text() gives None or a str.          *)
(***************************************************************************)
NoneText == [none |-> TRUE, str |-> <<>>]
Str(s) == [none |-> FALSE, str |-> s]
Truthy(v) == ~v.none /\ v.str # <<>>

RECURSIVE ExtractLoop(_, _)
ExtractLoop(pages, full_text) ==
    IF pages = <<>> THEN full_text
    ELSE LET text == Head(pages)
         IN  ExtractLoop(Tail(pages),
                         IF Truthy(text) THEN full_text \o (text.str \o NL)
                         ELSE full_text)

\* Variant: the slice of line 46 left out.
extract_text_from_pdf_untruncated(pages) == ExtractLoop(pages, <<>>)

extract_text_from_pdf(pages) == Slice(ExtractLoop(pages, <<>>), MaxChars)

(***************************************************************************)
(* Heuristic evidence.  The dict is a sequence of entries in insertion     *)
(* order.                                                                  *)
(***************************************************************************)
\* Variant: "doi" looked up in the text as it is, not in text.lower().
scholarly_indicators_doi_case_sensitive(text) ==
    << [key |-> "Contains Abstract", value |-> In(sAbstract, text)],
       [key |-> "Contains References",
        value |-> In(sReferences, text) \/ In(sBibliography, text)],
       [key |-> "Contains DOI", value |-> In(sdoi, text)],
       [key |-> "Mentions Journal/Volume",
        value |-> In(sJournal, text) \/ In(sVol, text)] >>

scholarly_indicators(text) ==
    << [key |-> "Contains Abstract", value |-> In(sAbstract, text)],
       [key |-> "Contains References",
        value |-> In(sReferences, text) \/ In(sBibliography, text)],
       [key |-> "Contains DOI", value |-> In(sdoi, lower(text))],
       [key |-> "Mentions Journal/Volume",
        value |-> In(sJournal, text) \/ In(sVol, text)] >>

(***************************************************************************)
(* The cached model.  st.cache_resource keeps the object the first         *)
(* successful call of load_classifier returned and hands it to every later *)
(* call; a call that raises caches nothing.                                *)
(***************************************************************************)
NoCache == [loaded |-> FALSE, id |-> 0]

\* Variant: load_classifier without @st.cache_resource.
load_classifier_uncached(c, n) ==
    [cache |-> [loaded |-> TRUE, id |-> n + 1], constructed |-> n + 1,
     instance |-> n + 1]

\* load_classifier() with cache entry c after n constructions: the new cache
\* entry, the new number of constructions and the instance returned.
load_classifier(c, n) ==
    IF c.loaded
    THEN [cache |-> c, constructed |-> n, instance |-> c.id]
    ELSE [cache |-> [loaded |-> TRUE, id |-> n + 1], constructed |-> n + 1,
          instance |-> n + 1]

(***************************************************************************)
(* Document classification.  The pipeline is a pretrained, fixed function  *)
(* of the text: it either raises or returns the candidate labels ordered   *)
(* by descending score together with those scores.  Scores are multiples   *)
(* of 1/ScoreDen that sum to one.  Which outcome the model gives for a     *)
(* text is unknown until the first call on it, and the same ever after.    *)
(***************************************************************************)
labels ==
    << <<"s","c","h","o","l","a","r","l","y"," ","p","e","e","r","-",
         "r","e","v","i","e","w","e","d"," ","a","c","a","d","e","m","i","c",
         " ","a","r","t","i","c","l","e">>,
       <<"p","o","p","u","l","a","r"," ","o","r"," ","n","o","n","-",
         "a","c","a","d","e","m","i","c"," ","a","r","t","i","c","l","e">> >>

NoResult == [labels |-> <<>>, scores |-> <<>>]

PipelineResults ==
    { [labels |-> <<labels[i], labels[3 - i]>>, scores |-> <<a, ScoreDen - a>>] :
          i \in 1..2, a \in { b \in 0..ScoreDen : 2 * b >= ScoreDen } }

PipelineOutcomes ==
    { [raises |-> TRUE, result |-> NoResult] } \cup
    { [raises |-> FALSE, result |-> r] : r \in PipelineResults }

\* The outcomes classify_text(text) can have, given the behaviour seen so far.
classify_text(text) ==
    IF text \in DOMAIN oracle THEN {oracle[text]} ELSE PipelineOutcomes

Remember(text, o) ==
    [t \in DOMAIN oracle \cup {text} |-> IF t = text THEN o ELSE oracle[t]]

(***************************************************************************)
(* Display.  The page of a run is the sequence of elements the run wrote.  *)
(***************************************************************************)
\* f"{confidence:.2%}": the score as a percentage with two decimals, in
\* hundredths of a percent, rounded to nearest with ties to even.
FormatPercent(score) ==
    LET n == score * 10000
        q == n \div ScoreDen
        r == n % ScoreDen
    IN  IF 2 * r < ScoreDen THEN q
        ELSE IF 2 * r > ScoreDen THEN q + 1
        ELSE IF q % 2 = 0 THEN q ELSE q + 1

Header ==
    << [kind |-> "title"], [kind |-> "markdown"], [kind |-> "file_uploader"] >>

\* Variant: the confidence read from scores[1] instead of scores[0].
VerdictDisplay_second_score(res) ==
    LET predicted_label == res.labels[1]
        confidence == res.scores[2]
    IN  << [kind |-> "subheader", body |-> "Classification Result"],
           IF In(sscholarly, predicted_label)
           THEN [kind |-> "success", body |-> "Scholarly / Peer-reviewed",
                 confidence |-> FormatPercent(confidence)]
           ELSE [kind |-> "warning", body |-> "Popular / Non-academic",
                 confidence |-> FormatPercent(confidence)] >>

\* Variant: two separate ifs, the second on labels[1], instead of if/else.
VerdictDisplay_two_ifs(res) ==
    LET predicted_label == res.labels[1]
        confidence == res.scores[1]
    IN  << [kind |-> "subheader", body |-> "Classification Result"] >>
        \o (IF In(sscholarly, predicted_label)
            THEN << [kind |-> "success", body |-> "Scholarly / Peer-reviewed",
                     confidence |-> FormatPercent(confidence)] >>
            ELSE << >>)
        \o (IF In(sscholarly, res.labels[2])
            THEN << >>
            ELSE << [kind |-> "warning", body |-> "Popular / Non-academic",
                     confidence |-> FormatPercent(confidence)] >>)

\* Lines 89-97.
VerdictDisplay(res) ==
    LET predicted_label == res.labels[1]
        confidence == res.scores[1]
    IN  << [kind |-> "subheader", body |-> "Classification Result"],
           IF In(sscholarly, predicted_label)
           THEN [kind |-> "success", body |-> "Scholarly / Peer-reviewed",
                 confidence |-> FormatPercent(confidence)]
           ELSE [kind |-> "warning", body |-> "Popular / Non-academic",
                 confidence |-> FormatPercent(confidence)] >>

\* Variant: a line written only for the indicators that are true.
EvidenceDisplay_only_true(h) ==
    LET hit == { i \in 1..Len(h) : h[i].value }
        nth(k) == CHOOSE i \in hit : Cardinality({ j \in hit : j < i }) = k - 1
    IN  << [kind |-> "subheader", body |-> "Evidence Detected"] >>
        \o [k \in 1..Cardinality(hit) |->
               [kind |-> "write", icon |-> "check", key |-> h[nth(k)].key]]

\* Lines 99-102.
EvidenceDisplay(h) ==
    << [kind |-> "subheader", body |-> "Evidence Detected"] >>
    \o [i \in 1..Len(h) |->
           [kind |-> "write",
            icon |-> IF h[i].value THEN "check" ELSE "cross",
            key |-> h[i].key]]

\* Lines 104-105.
TextDisplay(text) ==
    << [kind |-> "text", body |-> Slice(text, MaxShown)] >>

(***************************************************************************)
(* Inputs.  A PDF is the sequence of what extract_text() gives for each of *)
(* its pages, or a file pdfplumber.open cannot read.                       *)
(***************************************************************************)
Filler(n) == [i \in 1..n |-> "x"]

PageTexts ==
    { NoneText, Str(<<>>),
      Str(sAbstract), Str(<<"a","b","s","t","r","a","c","t">>),
      Str(sReferences), Str(sBibliography),
      Str(sJournal), Str(sVol), Str(<<"V","o","l">>),
      Str(sdoi), Str(<<"D","o","I">>), Str(<<"D","O","I_DOT">>),
      Str(Filler(MaxChars - 5)) }

SeqsUpTo(S, n) == UNION { [1..k -> S] : k \in 0..n }

NoFile == [present |-> FALSE, readable |-> FALSE, pages |-> <<>>]
Pdf(pages) == [present |-> TRUE, readable |-> TRUE, pages |-> pages]
Unreadable == [present |-> TRUE, readable |-> FALSE, pages |-> <<>>]

Pdfs == { Pdf(p) : p \in SeqsUpTo(PageTexts, MaxPages) }
\* What the user may put in the upload widget of a run.
Uploads ==
    { Pdf(<<>>), Pdf(<<NoneText>>), Pdf(<<Str(sJournal)>>),
      Pdf(<<Str(sAbstract), Str(<<>>), Str(<<"D","O","I">>)>>), Unreadable }

(***************************************************************************)
(* The server process: script runs, one after the other.                   *)
(***************************************************************************)
Init ==
    /\ pc = "idle"
    /\ run = 0
    /\ cache = NoCache
    /\ constructed = 0
    /\ classifier = 0
    /\ calls = {}
    /\ oracle = [t \in {} |-> [raises |-> TRUE, result |-> NoResult]]
    /\ uploaded_file = NoFile
    /\ extracted_text = <<>>
    /\ result = NoResult
    /\ heuristics = <<>>
    /\ display = <<>>
    /\ error = "none"
    /\ log = {}

Ended == pc \in {"done", "failed"}

\* Variant: the page and the script globals of the last run survive.
StartRun_page_kept ==
    /\ pc = "idle" \/ Ended
    /\ run < MaxRuns
    /\ run' = run + 1
    /\ pc' = "load"
    /\ log' = IF Ended
              THEN log \cup {[file |-> uploaded_file, display |-> display,
                              error |-> error]}
              ELSE log
    /\ classifier' = 0
    /\ uploaded_file' = NoFile
    /\ error' = "none"
    /\ UNCHANGED <<cache, constructed, calls, oracle, extracted_text, result,
                   heuristics, display>>

\* Streamlit runs the script from the top: every script global starts unset
\* and the page starts empty.  Only the resource cache survives.
StartRun ==
    /\ pc = "idle" \/ Ended
    /\ run < MaxRuns
    /\ run' = run + 1
    /\ pc' = "load"
    /\ log' = IF Ended
              THEN log \cup {[file |-> uploaded_file, display |-> display,
                              error |-> error]}
              ELSE log
    /\ classifier' = 0
    /\ uploaded_file' = NoFile
    /\ extracted_text' = <<>>
    /\ result' = NoResult
    /\ heuristics' = <<>>
    /\ display' = <<>>
    /\ error' = "none"
    /\ UNCHANGED <<cache, constructed, calls, oracle>>

\* Line 33, the pipeline is cached or its construction succeeds.
LoadClassifier ==
    /\ pc = "load"
    /\ LET l == load_classifier(cache, constructed)
       IN  /\ cache' = l.cache
           /\ constructed' = l.constructed
           /\ classifier' = l.instance
    /\ pc' = "ui"
    /\ UNCHANGED <<run, calls, oracle, uploaded_file, extracted_text, result,
                   heuristics, display, error, log>>

\* Line 33, constructing the pipeline raises: nothing is cached.
LoadClassifierRaises ==
    /\ pc = "load"
    /\ ~cache.loaded
    /\ pc' = "failed"
    /\ error' = "load_classifier"
    /\ UNCHANGED <<run, cache, constructed, classifier, calls, oracle,
                   uploaded_file, extracted_text, result, heuristics, display, log>>

\* Lines 78-83: the page header, the upload widget and the test on its value.
ShowHeader ==
    /\ pc = "ui"
    /\ display' = display \o Header
    /\ \E f \in Uploads \cup {NoFile} :
          /\ uploaded_file' = f
          /\ pc' = IF f.present THEN "extract" ELSE "done"
    /\ UNCHANGED <<run, cache, constructed, classifier, calls, oracle,
                   extracted_text, result, heuristics, error, log>>

\* Line 85, the file is read.
Extract ==
    /\ pc = "extract"
    /\ uploaded_file.readable
    /\ extracted_text' = extract_text_from_pdf(uploaded_file.pages)
    /\ pc' = "classify"
    /\ UNCHANGED <<run, cache, constructed, classifier, calls, oracle,
                   uploaded_file, result, heuristics, display, error, log>>

\* Variant: the error caught and the run going on with no text.
ExtractRaises_swallowed ==
    /\ pc = "extract"
    /\ ~uploaded_file.readable
    /\ extracted_text' = <<>>
    /\ pc' = "classify"
    /\ UNCHANGED <<run, cache, constructed, classifier, calls, oracle,
                   uploaded_file, result, heuristics, display, error, log>>

\* Line 85, pdfplumber raises.
ExtractRaises ==
    /\ pc = "extract"
    /\ ~uploaded_file.readable
    /\ pc' = "failed"
    /\ error' = "extract_text_from_pdf"
    /\ UNCHANGED <<run, cache, constructed, classifier, calls, oracle,
                   uploaded_file, extracted_text, result, heuristics, display, log>>

\* Line 86, the classifier returns.
Classify ==
    /\ pc = "classify"
    /\ \E o \in classify_text(extracted_text) :
          /\ ~o.raises
          /\ oracle' = Remember(extracted_text, o)
          /\ result' = o.result
    /\ calls' = calls \cup {classifier}
    /\ pc' = "heuristics"
    /\ UNCHANGED <<run, cache, constructed, classifier, uploaded_file,
                   extracted_text, heuristics, display, error, log>>

\* Line 86, the classifier raises.
ClassifyRaises ==
    /\ pc = "classify"
    /\ \E o \in classify_text(extracted_text) :
          /\ o.raises
          /\ oracle' = Remember(extracted_text, o)
    /\ calls' = calls \cup {classifier}
    /\ pc' = "failed"
    /\ error' = "classify_text"
    /\ UNCHANGED <<run, cache, constructed, classifier, uploaded_file,
                   extracted_text, result, heuristics, display, log>>

\* Line 87.
Heuristics ==
    /\ pc = "heuristics"
    /\ heuristics' = scholarly_indicators(extracted_text)
    /\ pc' = "verdict"
    /\ UNCHANGED <<run, cache, constructed, classifier, calls, oracle,
                   uploaded_file, extracted_text, result, display, error, log>>

\* Lines 89-97.
ShowVerdict ==
    /\ pc = "verdict"
    /\ display' = display \o VerdictDisplay(result)
    /\ pc' = "evidence"
    /\ UNCHANGED <<run, cache, constructed, classifier, calls, oracle,
                   uploaded_file, extracted_text, result, heuristics, error, log>>

\* Lines 99-102.
ShowEvidence ==
    /\ pc = "evidence"
    /\ display' = display \o EvidenceDisplay(heuristics)
    /\ pc' = "text"
    /\ UNCHANGED <<run, cache, constructed, classifier, calls, oracle,
                   uploaded_file, extracted_text, result, heuristics, error, log>>

\* Lines 104-105.
ShowText ==
    /\ pc = "text"
    /\ display' = display \o TextDisplay(extracted_text)
    /\ pc' = "done"
    /\ UNCHANGED <<run, cache, constructed, classifier, calls, oracle,
                   uploaded_file, extracted_text, result, heuristics, error, log>>

Next ==
    \/ StartRun
    \/ LoadClassifier
    \/ LoadClassifierRaises
    \/ ShowHeader
    \/ Extract
    \/ ExtractRaises
    \/ Classify
    \/ ClassifyRaises
    \/ Heuristics
    \/ ShowVerdict
    \/ ShowEvidence
    \/ ShowText

Spec == Init /\ [][Next]_vars

(***************************************************************************)
(* The pure functions on their own: a PDF is drawn, the text is extracted  *)
(* from it, the indicators are computed from the text and the text shown.  *)
(***************************************************************************)
InitFn ==
    /\ pc = "fn_extract"
    /\ run = 0
    /\ cache = NoCache
    /\ constructed = 0
    /\ classifier = 0
    /\ calls = {}
    /\ oracle = [t \in {} |-> [raises |-> TRUE, result |-> NoResult]]
    /\ uploaded_file \in Pdfs
    /\ extracted_text = <<>>
    /\ result = NoResult
    /\ heuristics = <<>>
    /\ display = <<>>
    /\ error = "none"
    /\ log = {}

ApplyExtract ==
    /\ pc = "fn_extract"
    /\ extracted_text' = extract_text_from_pdf(uploaded_file.pages)
    /\ pc' = "fn_indicators"
    /\ UNCHANGED <<run, cache, constructed, classifier, calls, oracle,
                   uploaded_file, result, heuristics, display, error, log>>

ApplyIndicators ==
    /\ pc = "fn_indicators"
    /\ heuristics' = scholarly_indicators(extracted_text)
    /\ pc' = "fn_done"
    /\ UNCHANGED <<run, cache, constructed, classifier, calls, oracle,
                   uploaded_file, extracted_text, result, display, error, log>>

ApplyShowText ==
    /\ pc = "fn_done"
    /\ display = <<>>
    /\ display' = TextDisplay(extracted_text)
    /\ UNCHANGED <<pc, run, cache, constructed, classifier, calls, oracle,
                   uploaded_file, extracted_text, result, heuristics, error, log>>

NextFn == ApplyExtract \/ ApplyIndicators \/ ApplyShowText

SpecFn == InitFn /\ [][NextFn]_vars

SpecAll == (Init \/ InitFn) /\ [][Next \/ NextFn]_vars

(***************************************************************************)
(* Vocabulary of the properties.                                           *)
(***************************************************************************)
Verdicts == SelectSeq(display, LAMBDA e : e.kind \in {"success", "warning"})
EvidenceLines == SelectSeq(display, LAMBDA e : e.kind = "write")
Outputs(d) ==
    SelectSeq(d, LAMBDA e : e.kind \in {"success", "warning", "write", "text"})

Classified == pc = "done" /\ uploaded_file.present

\* sub occurs in text at some offset.
HasSubstring(text, sub) ==
    \E off \in 0..Len(text) :
        \A k \in 1..Len(sub) : off + k <= Len(text) /\ text[off + k] = sub[k]

\* d, o, i occur next to each other in text, each in any case.
HasDoiAnyCase(text) ==
    \E off \in 0..Len(text) :
        /\ off + 3 <= Len(text)
        /\ text[off + 1] \in {"d", "D"}
        /\ text[off + 2] \in {"o", "O"}
        /\ text[off + 3] \in {"i", "I", "I_DOT"}

\* The text of the pages from page i on, each page that has text followed
\* by a newline.
RECURSIVE PagesText(_, _)
PagesText(pages, i) ==
    IF i > Len(pages) THEN <<>>
    ELSE (IF pages[i].none \/ Len(pages[i].str) = 0 THEN <<>>
          ELSE pages[i].str \o <<"\n">>) \o PagesText(pages, i + 1)

IsFirstChars(t, full, n) ==
    /\ Len(t) = (IF Len(full) <= n THEN Len(full) ELSE n)
    /\ \A i \in 1..Len(t) : t[i] = full[i]

IndicatorKeys ==
    <<"Contains Abstract", "Contains References", "Contains DOI",
      "Mentions Journal/Volume">>

C2_FourIndicatorsFourLines ==
    /\ (pc \in {"verdict", "evidence", "text", "fn_done"} \/ Classified) =>
          /\ Len(heuristics) = 4
          /\ \A i \in 1..4 :
                heuristics[i].key = IndicatorKeys[i] /\ heuristics[i].value \in BOOLEAN
    /\ (pc = "text" \/ Classified) =>
          /\ Len(EvidenceLines) = 4
          /\ \A i \in 1..4 :
                /\ EvidenceLines[i].key = IndicatorKeys[i]
                /\ EvidenceLines[i].icon = (IF heuristics[i].value THEN "check" ELSE "cross")
    /\ pc \in {"verdict", "evidence"} => Len(EvidenceLines) = 0

C2_Witness ==
    /\ Classified
    /\ Len(EvidenceLines) = 4
    /\ \E i, j \in 1..4 : EvidenceLines[i].icon = "check" /\ EvidenceLines[j].icon = "cross"

(***************************************************************************)
(* C3.  The indicators of a text: 'Contains Abstract' is true iff          *)
(* "Abstract" occurs in it, 'Contains References' iff "References" or      *)
(* "Bibliography" occurs in it, 'Mentions Journal/Volume' iff "Journal" or *)
(* "Vol." occurs in it, all in this very case, and 'Contains DOI' iff      *)
(* d, o, i occur next to each other in any case.  Each value is decided by *)
(* the text alone.                                                         *)
(***************************************************************************)
C3_IndicatorsAreSubstringChecks ==
    pc = "fn_done" =>
        /\ heuristics[1].value <=> HasSubstring(extracted_text, sAbstract)
        /\ heuristics[2].value <=>
               (HasSubstring(extracted_text, sReferences)
                \/ HasSubstring(extracted_text, sBibliography))
        /\ heuristics[3].value <=> HasDoiAnyCase(extracted_text)
        /\ heuristics[4].value <=>
               (HasSubstring(extracted_text, sJournal) \/ HasSubstring(extracted_text, sVol))

C3_Witness ==
    /\ pc = "fn_done"
    /\ heuristics[3].value
    /\ ~HasSubstring(extracted_text, sdoi)
    /\ heuristics[1].value
    /\ ~heuristics[4].value

(***************************************************************************)
(* C4.  A run in which extraction or the classifier call raises ends by    *)
(* that error and displays no verdict, no confidence, no evidence line and *)
(* no extracted text: an unreadable upload never gets past extraction, a   *)
(* text the classifier raises on never gets past classification, and a     *)
(* run ended by an error has none of these on its page.                    *)
(***************************************************************************)
C4_ErrorsEndTheRunWithNoResult ==
    /\ pc = "failed" => (error # "none" /\ Outputs(display) = <<>>)
    /\ (uploaded_file.present /\ ~uploaded_file.readable /\ pc # "extract") =>
          (pc = "failed" /\ error = "extract_text_from_pdf")
    /\ (uploaded_file.present /\ uploaded_file.readable
        /\ pc \notin {"extract", "classify", "fn_extract", "fn_indicators", "fn_done"}
        /\ extracted_text \in DOMAIN oracle /\ oracle[extracted_text].raises) =>
          (pc = "failed" /\ error = "classify_text")

C4_Witness ==
    /\ pc = "failed"
    /\ error = "classify_text"
    /\ display = Header
    /\ extracted_text # <<>>

(***************************************************************************)
(* C5.  The verdict, confidence, evidence lines and text a finished run    *)
(* displays are those every earlier run on the same upload displayed,      *)
(* whatever was uploaded in the other runs.                                *)
(***************************************************************************)
C5_SameUploadSameOutput ==
    Ended =>
        \A e \in log : e.file = uploaded_file => Outputs(e.display) = Outputs(display)

C5_Witness ==
    /\ Classified
    /\ \E e1, e2 \in log :
          /\ e1.file = uploaded_file
          /\ e2.file.present /\ e2.file.readable /\ e2.file # uploaded_file
          /\ Outputs(e2.display) # <<>>
          /\ Outputs(e2.display) # Outputs(display)

(***************************************************************************)
(* C6.  The extracted text is the first 4000 characters of the texts of    *)
(* the pages, in page order, each followed by a newline, without the pages *)
(* whose text is empty or None; it has at most 4000 characters and is      *)
(* empty when no page has text.                                            *)
(***************************************************************************)
C6_ExtractIsTruncatedConcatenation ==
    pc \in {"fn_indicators", "fn_done"} =>
        /\ IsFirstChars(extracted_text, PagesText(uploaded_file.pages, 1), 4000)
        /\ Len(extracted_text) <= 4000
        /\ (\A i \in 1..Len(uploaded_file.pages) :
                uploaded_file.pages[i].none \/ uploaded_file.pages[i].str = <<>>)
              => extracted_text = <<>>

C6_Witness ==
    /\ pc = "fn_done"
    /\ Len(extracted_text) = 4000
    /\ Len(PagesText(uploaded_file.pages, 1)) > 4000
    /\ extracted_text[4000] # "\n"

(***************************************************************************)
(* C7.  The verdict shown is 'Scholarly / Peer-reviewed' iff "scholarly"   *)
(* occurs in the first label of the result, and 'Popular / Non-academic'   *)
(* otherwise; the confidence shown is the first score of the result as a   *)
(* percentage rounded to two decimals, and no score of the result is       *)
(* larger than it.                                                         *)
(***************************************************************************)
C7_VerdictIsFirstLabelConfidenceIsTopScore ==
    (pc \in {"evidence", "text"} \/ Classified) =>
        /\ Len(Verdicts) = 1
        /\ Verdicts[1].body = "Scholarly / Peer-reviewed"
              <=> HasSubstring(result.labels[1], sscholarly)
        /\ Verdicts[1].body = "Popular / Non-academic"
              <=> ~HasSubstring(result.labels[1], sscholarly)
        /\ LET hundredths == Verdicts[1].confidence * ScoreDen
               exact == result.scores[1] * 10000
           IN  /\ 2 * (hundredths - exact) <= ScoreDen
               /\ 2 * (exact - hundredths) <= ScoreDen
        /\ \A i \in 1..Len(result.scores) : result.scores[i] <= result.scores[1]

C7_Witness ==
    /\ Classified
    /\ Verdicts[1].body = "Scholarly / Peer-reviewed"
    /\ result.scores[1] > result.scores[2]
    /\ result.scores[2] > 0

(***************************************************************************)
(* C8.  At most one pipeline is ever constructed; every classifier call    *)
(* is made on the cached instance; and a run is past line 33 only with the *)
(* pipeline loaded and `classifier` bound to the cached instance, so the   *)
(* load precedes the processing of any upload.                             *)
(***************************************************************************)
C8_PipelineConstructedOnce ==
    /\ constructed <= 1
    /\ cache.loaded <=> constructed = 1
    /\ calls \subseteq (IF cache.loaded THEN {cache.id} ELSE {})
    /\ pc \in {"ui", "extract", "classify", "heuristics", "verdict", "evidence",
               "text", "done"}
          => (cache.loaded /\ classifier = cache.id)
    /\ \A e \in log : Outputs(e.display) # <<>> => cache.loaded

C8_Witness ==
    /\ run = MaxRuns
    /\ Classified
    /\ constructed = 1
    /\ calls = {1}
    /\ \E e \in log : e.error = "load_classifier"
    /\ \E e \in log : Outputs(e.display) # <<>>

====
